---- MODULE Spec2Model ----
(***************************************************************************)
(* ECIES envelope encryption (ext/ies/ecies.c): the KDF2 key-stretching    *)
(* loop, the envelope-key derivation, the symmetric cipher stage, the MAC  *)
(* stage and the two orchestrators ecies_encrypt / ecies_decrypt, as a     *)
(* state machine over the heap objects the calls own (cryptogram,          *)
(* envelope key, ECDH shared secret, ephemeral key), the caller's error    *)
(* buffer and the returned value.                                          *)
(***************************************************************************)
EXTENDS Integers, Sequences, FiniteSets, TLC

VARIABLES
    pc,       \* position of the running call ("idle" between calls)
    op,       \* "none" | "encrypt" | "decrypt": the entry point running
    ctx,      \* the ies_ctx_t argument of the running call (with .null)
    data,     \* the plaintext argument of the last ecies_encrypt call
    loc,      \* locals of ecies_encrypt read at lines 270-272
    cg,       \* the cryptogram_t object (heap state and its three fields)
    ek,       \* the envelope_key buffer (malloc/free)
    kt,       \* the ECDH shared secret ktmp (OPENSSL_malloc/cleanse/free)
    eph,      \* the ephemeral EC_KEY ("none" | "live" | "freed")
    err,      \* the caller's error buffer ("" = not written in this call)
    result,   \* value returned by the call ("pending" while it runs)
    did,      \* steps the running call has executed so far
    fault,    \* the primitive that reported failure in this call, or "none"
    macst,    \* verify_mac in this call: "none" | "ok" | "fail"
    tampered, \* "no" | "body" | "mac": a bit of the cryptogram was flipped
    args,     \* null-ness of the pointer arguments of ecies_decrypt
    kdf       \* the running ECDH_KDF_X9_62 call

vars == <<pc, op, ctx, data, loc, cg, ek, kt, eph, err, result, did, fault,
          macst, tampered, args, kdf>>

----------------------------------------------------------------------------
(* Bounds of the model.                                                    *)

\* longest plaintext handed to ecies_encrypt
MaxLen == 3
\* plaintext bytes are drawn from 0..MaxByte
MaxByte == 1
\* ephemeral private keys are drawn from 1..MaxEph
MaxEph == 1
\* largest in-range output length handed to ECDH_KDF_X9_62
MaxOut == 5
\* largest digest size (EVP_MD_size) of the KDF digest
MaxMd == 3
\* highest bit index flipped when a cryptogram is tampered with
MaxBit == 1
\* the recipient's private key (ctx->user_key)
UserPriv == 3

\* #define ECDH_KDF_MAX (1 << 30)
ECDH_KDF_MAX == 1073741824
\* OpenSSL's EVP_MAX_BLOCK_LENGTH, the limit tested at line 281
EVP_MAX_BLOCK_LENGTH == 32

\* what a call returns: the failure value, a pointer to the cryptogram, a
\* plaintext buffer with its length; CRASH when the process died in the
\* call, PENDING while it runs
Ret(kind) == [kind |-> kind, bytes |-> <<>>, length |-> 0]
NULL == Ret("NULL")
CRASH == Ret("crash")
PENDING == Ret("pending")
NONE == Ret("none")
CRYPTOGRAM == Ret("cryptogram")
Plain(bytes, length) == [kind |-> "plaintext", bytes |-> bytes,
                         length |-> length]

----------------------------------------------------------------------------
(* Primitives of the library the code calls, by their contracts.           *)

RECURSIVE Fold(_)
\* position-sensitive compression of a message to one number
Fold(s) == IF s = <<>> THEN 7
           ELSE (Fold(SubSeq(s, 1, Len(s) - 1)) * 31 + s[Len(s)] + 1) % 251

\* EVP_DigestFinal over everything absorbed by EVP_DigestUpdate: mdlen bytes
Digest(msg, mdlen) == [j \in 1..mdlen |-> (Fold(msg) * 3 + 17 * j) % 256]

\* the buffer b with the bytes w stored from 0-based offset pos on
\* (offsets past the end of b are dropped)
WriteAt(b, pos, w) ==
    [j \in 1..Len(b) |->
        IF j > pos /\ j <= pos + Len(w) THEN w[j - pos] ELSE b[j]]

----------------------------------------------------------------------------
(* ECDH_KDF_X9_62, lines 26-76.                                            *)

\* the counter stored least significant byte first
Ctr_LittleEndian(i) == << i % 256, (i \div 256) % 256,
                          (i \div 65536) % 256, (i \div 16777216) % 256 >>
\* ctr[0..3] as stored at lines 44-47
Ctr(i) == << (i \div 16777216) % 256, (i \div 65536) % 256,
             (i \div 256) % 256, i % 256 >>

\* line 54: if (outlen >= mdlen)
KdfFullBlock(outlen, mdlen) == outlen >= mdlen

\* line 36: the three length limits
KdfTooLong(sinfolen, outlen, Zlen) ==
    sinfolen > ECDH_KDF_MAX \/ outlen > ECDH_KDF_MAX \/ Zlen > ECDH_KDF_MAX

\* state of a call on entry: out is the caller's buffer of outlen bytes
\* followed by mdlen guard bytes; -1 marks a byte never written
KdfEnter(outlen, Z, Zlen, sinfo, sinfolen, mdlen, digestOk) ==
    [pc |-> "entry", out |-> [j \in 1..((IF outlen > ECDH_KDF_MAX THEN 0
                                          ELSE outlen) + mdlen) |-> -1],
     outlen0 |-> outlen, outlen |-> outlen, pos |-> 0, i |-> 1, rv |-> 0,
     Z |-> Z, Zlen |-> Zlen, sinfo |-> sinfo, sinfolen |-> sinfolen,
     mdlen |-> mdlen, digestOk |-> digestOk]

\* lines 36-39: reject oversized inputs, else enter the loop with i = 1
KdfCheck(k) ==
    IF KdfTooLong(k.sinfolen, k.outlen, k.Zlen)
    THEN [k EXCEPT !.pc = "done"]
    ELSE [k EXCEPT !.pc = "loop"]

\* lines 41-70: one iteration of the for loop
KdfIter(k) ==
    LET d == Digest(k.Z \o Ctr(k.i) \o k.sinfo, k.mdlen)
    IN  IF ~k.digestOk
        THEN [k EXCEPT !.pc = "done"]                      \* goto err
        ELSE IF KdfFullBlock(k.outlen, k.mdlen)
        THEN IF k.outlen - k.mdlen = 0
             THEN [k EXCEPT !.out = WriteAt(k.out, k.pos, d),
                            !.outlen = 0, !.rv = 1, !.pc = "done"]
             ELSE [k EXCEPT !.out = WriteAt(k.out, k.pos, d),
                            !.outlen = k.outlen - k.mdlen,
                            !.pos = k.pos + k.mdlen,
                            !.i = k.i + 1]
        ELSE [k EXCEPT !.out = WriteAt(k.out, k.pos,
                                       SubSeq(d, 1, k.outlen)),
                       !.rv = 1, !.pc = "done"]

RECURSIVE KdfRun(_)
\* the call run to its return
KdfRun(k) == IF k.pc = "done" THEN k
             ELSE IF k.pc = "entry" THEN KdfRun(KdfCheck(k))
             ELSE KdfRun(KdfIter(k))

\* the whole call: [rv, out] with out the outlen bytes of the caller's buffer
ECDH_KDF_X9_62(outlen, Z, Zlen, sinfo, sinfolen, mdlen, digestOk) ==
    LET k == KdfRun(KdfEnter(outlen, Z, Zlen, sinfo, sinfolen, mdlen,
                             digestOk))
    IN  [rv |-> k.rv,
         out |-> SubSeq(k.out, 1, IF outlen > ECDH_KDF_MAX THEN 0 ELSE outlen)]

NoKdf == [pc |-> "off"]

----------------------------------------------------------------------------
(* The cryptogram container (cryptogram.c, not part of ecies.c): three     *)
(* fields of fixed length, key | body | mac, contiguous in that order.     *)

NoCg == [state |-> "none", frees |-> 0, key_length |-> 0, mac_length |-> 0,
         body_length |-> 0, key |-> <<>>, body |-> <<>>, mac |-> <<>>,
         past |-> <<>>]

Zeros(n) == [j \in 1..n |-> 0]

\* cryptogram_alloc(key, mac, body): a live object with the three lengths
cryptogram_alloc(key_length, mac_length, body_length) ==
    [state |-> "live", frees |-> 0, key_length |-> key_length,
     mac_length |-> mac_length, body_length |-> body_length,
     key |-> Zeros(key_length), body |-> Zeros(body_length),
     mac |-> Zeros(mac_length), past |-> <<>>]

\* cryptogram_free: releases the object; frees counts the calls on it
cryptogram_free(c) == [c EXCEPT !.state = "freed", !.frees = @ + 1]

\* a write of the bytes w at 0-based offset pos of the body field: what
\* fits stays in the body, the rest lands in the mac field that follows
\* it, and .past records every byte written beyond the body's capacity
WriteBody(c, pos, w) ==
    LET room == IF c.body_length > pos THEN c.body_length - pos ELSE 0
        over == IF Len(w) > room THEN SubSeq(w, room + 1, Len(w)) ELSE <<>>
    IN  [c EXCEPT !.body = WriteAt(c.body, pos, w),
                  !.mac  = WriteAt(c.mac, 0, over),
                  !.past = c.past \o over]

----------------------------------------------------------------------------
(* The elliptic-curve primitives, on a small cyclic group.                 *)

\* the public key of the private key x
PubOf(x) == (x * 2) % 11
\* ECDH_compute_key: the shared secret of a private and a public key
ECDH_compute_key(priv, pub) == << (priv * pub) % 11 >>
\* EC_POINT_point2oct, POINT_CONVERSION_COMPRESSED
point2oct(pub) == << 2 + (pub % 2), pub >>
\* (EC_GROUP_get_degree + 7) / 8: the length of a shared secret
ecdh_key_len == Len(ECDH_compute_key(1, 1))
\* length of a compressed point of the recipient's group
PointOctLen == Len(point2oct(1))
\* EC_POINT_oct2point with EC_KEY_check_key: the octets name a group element
oct2pointOk(o) ==
    /\ Len(o) = PointOctLen
    /\ o[2] \in 1..10
    /\ o[1] = 2 + (o[2] % 2)


----------------------------------------------------------------------------
(* The symmetric cipher and the HMAC.                                      *)

RECURSIVE SumSeq(_)
SumSeq(s) == IF s = <<>> THEN 0 ELSE s[1] + SumSeq(Tail(s))

EncByte(key, b) == (b + SumSeq(key) + 1) % 256
DecByte(key, c) == (c + 256 * (Len(key) + 1) - SumSeq(key) - 1) % 256

\* EVP_EncryptUpdate on a fresh context: whole blocks are output, the
\* rest stays buffered
EVP_EncryptUpdate(key, in, bs) ==
    LET n == (Len(in) \div bs) * bs
    IN  [out |-> [j \in 1..n |-> EncByte(key, in[j])],
         buf |-> SubSeq(in, n + 1, Len(in))]

\* EVP_EncryptFinal_ex with padding on (the default, never turned off
\* here): one more block, the buffered bytes padded with bs - buf_len
\* bytes of that value; nothing for a cipher of block size 1
EVP_EncryptFinal_ex(key, buf, bs) ==
    IF bs = 1 THEN <<>>
    ELSE [j \in 1..bs |->
            EncByte(key, IF j <= Len(buf) THEN buf[j] ELSE bs - Len(buf))]

\* EVP_DecryptUpdate on a fresh context: whole blocks are decrypted; with
\* padding on and no partial block left, the last block is held back
EVP_DecryptUpdate(key, in, bs) ==
    LET n    == (Len(in) \div bs) * bs
        dec  == [j \in 1..n |-> DecByte(key, in[j])]
        hold == bs > 1 /\ n = Len(in) /\ n > 0
    IN  [out |-> IF hold THEN SubSeq(dec, 1, n - bs) ELSE dec,
         final |-> IF hold THEN SubSeq(dec, n - bs + 1, n) ELSE <<>>,
         final_used |-> hold,
         buf_len |-> Len(in) - n]

\* EVP_DecryptFinal_ex: checks and strips the padding of the held block
EVP_DecryptFinal_ex(u, bs) ==
    IF bs = 1 THEN [ok |-> TRUE, out |-> <<>>]
    ELSE IF u.buf_len # 0 \/ ~u.final_used THEN [ok |-> FALSE, out |-> <<>>]
    ELSE LET n == u.final[bs]
         IN  IF n = 0 \/ n > bs THEN [ok |-> FALSE, out |-> <<>>]
             ELSE IF \E j \in (bs - n + 1)..bs : u.final[j] # n
                  THEN [ok |-> FALSE, out |-> <<>>]
                  ELSE [ok |-> TRUE, out |-> SubSeq(u.final, 1, bs - n)]

\* EVP_MD_size(ctx->md): long enough for the tag below to be injective
MdSize == MaxLen + 5

\* HMAC_Init_ex/Update/Final: a tag of mdsize bytes, different for
\* different (key, message) pairs
HMAC(key, msg, mdsize) ==
    LET t == <<Len(key)>> \o key \o <<Len(msg)>> \o msg
    IN  [j \in 1..mdsize |-> IF j <= Len(t) THEN t[j] ELSE 0]

----------------------------------------------------------------------------
(* Heap buffers holding secrets.                                           *)

\* .secret: key material has been stored in the buffer; .cleansed: it has
\* been overwritten since
NoBuf == [state |-> "none", secret |-> FALSE, cleansed |-> FALSE,
          bytes |-> <<>>]
\* malloc / OPENSSL_malloc
malloc(n) == [state |-> "live", secret |-> FALSE, cleansed |-> FALSE,
              bytes |-> Zeros(n)]
\* free / OPENSSL_free: the memory is released with its contents as they are
free(b) == [b EXCEPT !.state = "freed"]
\* OPENSSL_cleanse
OPENSSL_cleanse(b) == [b EXCEPT !.cleansed = TRUE, !.bytes = Zeros(Len(@))]
\* key material is stored in the buffer
Fill(b, bytes) == [b EXCEPT !.bytes = bytes, !.secret = TRUE,
                            !.cleansed = FALSE]

\* the cipher key: the first key_length bytes of the envelope key
CipherKey(c, e) == SubSeq(e.bytes, 1, c.key_length)
\* the mac key: envelope_key + key_length, key_length bytes
MacKey(c, e) == SubSeq(e.bytes, c.key_length + 1, 2 * c.key_length)

----------------------------------------------------------------------------
(* ecies_key_create, lines 78-107: the message of its failing step, or ""  *)

ecies_key_create(f) ==
    CASE f = "EC_KEY_new"          -> "EC_KEY_new failed"
      [] f = "EC_KEY_get0_group"   -> "The user key does not have group"
      [] f = "EC_KEY_set_group"    -> "EC_KEY_set_group failed"
      [] f = "EC_KEY_generate_key" -> "EC_KEY_generate_key failed"
      [] OTHER                     -> ""

PrepareFaults == {"malloc", "EC_KEY_new", "EC_KEY_get0_group",
                  "EC_KEY_set_group", "EC_KEY_generate_key",
                  "OPENSSL_malloc", "ECDH_compute_key", "EVP_Digest",
                  "EC_POINT_point2oct"}

(* prepare_envelope_key, lines 109-187, with ephemeral private key e and   *)
(* the primitive f reporting failure ("none": all succeed).                *)
prepare_envelope_key(c, g, e, f) ==
    LET key_buf_len == c.KDF_digest_length
        created == ecies_key_create(f)
        Z   == ECDH_compute_key(e, PubOf(UserPriv))
        k   == ECDH_KDF_X9_62(key_buf_len, Z, ecdh_key_len, <<>>, 0,
                              c.kdf_mdlen, f # "EVP_Digest")
        oct == point2oct(PubOf(e))
        written_length ==
            IF f = "EC_POINT_point2oct" \/ c.envelope_key_length < Len(oct)
            THEN 0 ELSE Len(oct)
        e0  == malloc(key_buf_len)
        t0  == Fill(malloc(ecdh_key_len), Z)
        e1  == Fill(e0, k.out)
        g1  == [g EXCEPT !.key = WriteAt(g.key, 0, oct)]
        base == [ok |-> FALSE, cg |-> g, ek |-> NoBuf, kt |-> NoBuf,
                 eph |-> "none", err |-> "", did |-> {}]
    IN  CASE f = "malloc" ->                                 \* lines 121-124
            [base EXCEPT
                !.err = "Failed to allocate memory for envelope_key",
                !.did = {"malloc_envelope_key"}]
          [] created # "" ->                                 \* lines 126-128
            [base EXCEPT !.err = created, !.ek = free(e0),
                !.eph = IF f = "EC_KEY_new" THEN "none" ELSE "freed",
                !.did = {"malloc_envelope_key", "ecies_key_create"}]
          [] f = "OPENSSL_malloc" ->                         \* lines 132-136
            [base EXCEPT !.err = "No memory for ECDH temporary key",
                !.ek = free(e0), !.eph = "freed",
                !.did = {"malloc_envelope_key", "ecies_key_create",
                         "malloc_ktmp"}]
          [] f = "ECDH_compute_key" ->                       \* lines 138-142
            [base EXCEPT
                !.err = "An error occurred while ECDH_compute_key",
                !.ek = free(e0), !.eph = "freed",
                !.kt = free(OPENSSL_cleanse(malloc(ecdh_key_len))),
                !.did = {"malloc_envelope_key", "ecies_key_create",
                         "malloc_ktmp", "ECDH_compute_key"}]
          [] k.rv = 0 ->                                     \* lines 145-148
            [base EXCEPT !.err = "Failed to stretch with KDF2",
                !.ek = free(e0), !.eph = "freed",
                !.kt = free(OPENSSL_cleanse(t0)),
                !.did = {"malloc_envelope_key", "ecies_key_create",
                         "malloc_ktmp", "ECDH_compute_key",
                         "ECDH_KDF_X9_62"}]
          [] written_length = 0 ->                           \* lines 158-163
            [base EXCEPT
                !.err = "Error while recording the public portion of the envelope key",
                !.ek = free(e1), !.eph = "freed", !.kt = t0,
                !.did = {"malloc_envelope_key", "ecies_key_create",
                         "malloc_ktmp", "ECDH_compute_key",
                         "ECDH_KDF_X9_62", "EC_POINT_point2oct"}]
          [] written_length # c.envelope_key_length ->       \* lines 164-169
            [base EXCEPT
                !.err = "Written envelope key length does not match with expected",
                !.cg = g1, !.ek = free(e1), !.eph = "freed", !.kt = t0,
                !.did = {"malloc_envelope_key", "ecies_key_create",
                         "malloc_ktmp", "ECDH_compute_key",
                         "ECDH_KDF_X9_62", "EC_POINT_point2oct"}]
          [] OTHER ->                                        \* lines 171-175
            [base EXCEPT !.ok = TRUE,
                !.cg = g1, !.ek = e1, !.eph = "freed",
                !.kt = free(OPENSSL_cleanse(t0)),
                !.did = {"malloc_envelope_key", "ecies_key_create",
                         "malloc_ktmp", "ECDH_compute_key",
                         "ECDH_KDF_X9_62", "EC_POINT_point2oct"}]

----------------------------------------------------------------------------
(* store_cipher_body, lines 189-239: [ok, cg, err]                         *)

BodyFaults == {"EVP_EncryptInit_ex", "EVP_EncryptUpdate",
               "EVP_EncryptFinal_ex"}

store_cipher_body(c, e, d, g, f) ==
    LET expected_len == g.body_length
        key == CipherKey(c, e)
        u   == EVP_EncryptUpdate(key, d.bytes, c.block_length)
        out_len == Len(u.out)
        g1  == WriteBody(g, 0, u.out)
        len_sum == out_len                                   \* line 223
        fin == EVP_EncryptFinal_ex(key, u.buf, c.block_length)
        g2  == WriteBody(g1, out_len, fin)
    IN  CASE f = "EVP_EncryptInit_ex" ->                     \* lines 209-214
            [ok |-> FALSE, cg |-> g, err |->
              "Error while trying to secure the data using the symmetric cipher"]
          [] f = "EVP_EncryptUpdate" ->
            [ok |-> FALSE, cg |-> g, err |->
              "Error while trying to secure the data using the symmetric cipher"]
          [] expected_len < out_len ->                       \* lines 216-220
            [ok |-> FALSE, cg |-> g1,
             err |-> "The symmetric cipher overflowed"]
          [] f = "EVP_EncryptFinal_ex" ->                    \* lines 224-229
            [ok |-> FALSE, cg |-> cryptogram_free(g1), err |->
              "Error while finalizing the data using the symmetric cipher"]
          [] expected_len < len_sum ->                       \* lines 233-236
            [ok |-> FALSE, cg |-> g2,
             err |-> "The symmetric cipher overflowed"]
          [] OTHER ->
            [ok |-> TRUE, cg |-> g2, err |-> ""]

----------------------------------------------------------------------------
(* store_mac_tag, lines 241-266: [ok, cg, err]                             *)

store_mac_tag(c, e, g, f) ==
    LET mac_length == g.mac_length
        tag == HMAC(MacKey(c, e), g.body, c.mac_length)
        out_len == Len(tag)
        g1 == [g EXCEPT !.mac = WriteAt(g.mac, 0, tag)]
    IN  CASE f = "HMAC" ->                                   \* lines 250-256
            [ok |-> FALSE, cg |-> g, err |-> "Unable to generate tag"]
          [] out_len # mac_length ->                         \* lines 260-263
            [ok |-> FALSE, cg |-> g1,
             err |-> "MAC length expectation does not meet"]
          [] OTHER ->
            [ok |-> TRUE, cg |-> g1, err |-> ""]

----------------------------------------------------------------------------
(* ecies_key_create_public_octets, lines 320-371: the message of its       *)
(* failing step, or ""                                                     *)

ecies_key_create_public_octets(octets, f) ==
    CASE f = "EC_KEY_new"          -> "Cannot create instance for ephemeral key"
      [] f = "EC_KEY_get0_group"   -> "Cannot get group from user key"
      [] f = "EC_KEY_set_group"    -> "EC_KEY_set_group failed"
      [] f = "EC_POINT_new"        -> "EC_POINT_new failed"
      [] f = "EC_POINT_oct2point" \/ Len(octets) # PointOctLen
           \/ octets[1] \notin {2, 3}
                                   -> "EC_POINT_oct2point failed"
      [] f = "EC_KEY_set_public_key" -> "EC_KEY_set_public_key failed"
      [] f = "EC_KEY_check_key" \/ ~oct2pointOk(octets)
                                   -> "EC_KEY_check_key failed"
      [] OTHER                     -> ""

RestoreFaults == {"malloc", "EC_KEY_new_copy", "EC_KEY_copy", "EC_KEY_new",
                  "EC_KEY_get0_group", "EC_KEY_set_group", "EC_POINT_new",
                  "EC_POINT_oct2point", "EC_KEY_set_public_key",
                  "EC_KEY_check_key", "OPENSSL_malloc", "ECDH_compute_key",
                  "EVP_Digest"}

(* restore_envelope_key, lines 373-439                                     *)
restore_envelope_key(c, g, f) ==
    LET key_buf_len == c.KDF_digest_length
        created == ecies_key_create_public_octets(g.key, f)
        Z   == ECDH_compute_key(UserPriv, g.key[2])
        k   == ECDH_KDF_X9_62(key_buf_len, Z, ecdh_key_len, <<>>, 0,
                              c.kdf_mdlen, f # "EVP_Digest")
        e0  == malloc(c.KDF_digest_length)
        t0  == Fill(malloc(ecdh_key_len), Z)
        base == [ok |-> FALSE, ek |-> free(e0), kt |-> NoBuf,
                 eph |-> "none", err |-> "", did |-> {}]
    IN  CASE f = "malloc" ->                                 \* lines 381-384
            [base EXCEPT !.ek = NoBuf,
                !.err = "Failed to allocate memory for envelope_key",
                !.did = {"malloc_envelope_key"}]
          [] f = "EC_KEY_new_copy" ->                        \* lines 386-389
            [base EXCEPT
                !.err = "Failed to create instance for user key copy",
                !.did = {"malloc_envelope_key"}]
          [] f = "EC_KEY_copy" ->                            \* lines 391-394
            [base EXCEPT !.err = "Failed to copy user key",
                !.did = {"malloc_envelope_key"}]
          [] created # "" ->                                 \* lines 396-398
            [base EXCEPT !.err = created,
                !.eph = IF f = "EC_KEY_new" THEN "none" ELSE "freed",
                !.did = {"malloc_envelope_key",
                         "ecies_key_create_public_octets"}]
          [] f = "OPENSSL_malloc" ->                         \* lines 402-406
            [base EXCEPT !.err = "No memory for ECDH temporary key",
                !.eph = "freed",
                !.did = {"malloc_envelope_key",
                         "ecies_key_create_public_octets", "malloc_ktmp"}]
          [] f = "ECDH_compute_key" ->                       \* lines 408-412
            [base EXCEPT
                !.err = "An error occurred while ECDH_compute_key",
                !.eph = "freed",
                !.kt = free(OPENSSL_cleanse(malloc(ecdh_key_len))),
                !.did = {"malloc_envelope_key",
                         "ecies_key_create_public_octets", "malloc_ktmp",
                         "ECDH_compute_key"}]
          [] k.rv = 0 ->                                     \* lines 415-418
            [base EXCEPT !.err = "Failed to stretch with KDF2",
                !.ek = free(e0), !.eph = "freed",
                !.kt = free(OPENSSL_cleanse(t0)),
                !.did = {"malloc_envelope_key",
                         "ecies_key_create_public_octets", "malloc_ktmp",
                         "ECDH_compute_key", "ECDH_KDF_X9_62"}]
          [] OTHER ->                                        \* lines 420-425
            [base EXCEPT !.ok = TRUE,
                !.ek = Fill(e0, k.out), !.eph = "freed",
                !.kt = free(OPENSSL_cleanse(t0)),
                !.did = {"malloc_envelope_key",
                         "ecies_key_create_public_octets", "malloc_ktmp",
                         "ECDH_compute_key", "ECDH_KDF_X9_62"}]

----------------------------------------------------------------------------
(* verify_mac, lines 441-473: [ok, err]                                    *)

\* a comparison that looks at the first byte only
MacEqual_FirstByte(md, mac, mac_length) == md[1] = mac[1]
\* line 467: memcmp(md, cryptogram_mac_data(cryptogram), mac_length) == 0
MacEqual(md, mac, mac_length) ==
    SubSeq(md, 1, mac_length) = SubSeq(mac, 1, mac_length)

verify_mac(c, g, e, f) ==
    LET mac_length == g.mac_length
        md == HMAC(MacKey(c, e), g.body, c.mac_length)
        out_len == Len(md)
    IN  CASE f = "HMAC" ->                                   \* lines 452-458
            [ok |-> FALSE, err |-> "Unable to generate tag"]
          [] out_len # mac_length ->                         \* lines 462-465
            [ok |-> FALSE, err |-> "MAC length expectation does not meet"]
          [] ~MacEqual(md, g.mac, mac_length) ->             \* lines 467-470
            [ok |-> FALSE, err |-> "MAC tag verification failed"]
          [] OTHER ->
            [ok |-> TRUE, err |-> ""]

----------------------------------------------------------------------------
(* decrypt_body, lines 475-518: [ok, output, length, err, did]; ok FALSE   *)
(* is the NULL return, err "" means the function wrote nothing into the     *)
(* error buffer                                                            *)

DecryptFaults == {"malloc", "EVP_DecryptInit_ex", "EVP_DecryptUpdate"}

decrypt_body(c, g, e, f) ==
    LET body_length == g.body_length
        key == CipherKey(c, e)
        u   == EVP_DecryptUpdate(key, g.body, c.block_length)
        fin == EVP_DecryptFinal_ex(u, c.block_length)
        output_sum == Len(u.out) + Len(fin.out)
    IN  CASE f = "malloc" ->                                 \* lines 483-486
            [ok |-> FALSE, output |-> <<>>, length |-> 0,
             did |-> {"malloc_output"},
             err |-> "Failed to allocate memory for clear text"]
          [] f \in {"EVP_DecryptInit_ex", "EVP_DecryptUpdate"} ->
            [ok |-> FALSE, output |-> <<>>, length |-> 0,    \* lines 495-501
             did |-> {"malloc_output", "EVP_DecryptInit_ex"}
                     \cup IF f = "EVP_DecryptUpdate"
                          THEN {"EVP_DecryptUpdate"} ELSE {},
             err |-> "Unable to decrypt"]
          [] ~fin.ok ->                                      \* lines 505-510
            [ok |-> FALSE, output |-> <<>>, length |-> 0,
             did |-> {"malloc_output", "EVP_DecryptInit_ex",
                      "EVP_DecryptUpdate", "EVP_DecryptFinal_ex"},
             err |-> ""]
          [] OTHER ->                                        \* lines 511-517
            [ok |-> TRUE, output |-> u.out \o fin.out,
             length |-> output_sum,
             did |-> {"malloc_output", "EVP_DecryptInit_ex",
                      "EVP_DecryptUpdate", "EVP_DecryptFinal_ex"},
             err |-> ""]

----------------------------------------------------------------------------
(* The arguments the calls are made with.                                  *)

RECURSIVE SeqsUpTo(_, _)
\* the sequences over S of length at most n
SeqsUpTo(S, n) ==
    IF n = 0 THEN {<<>>}
    ELSE LET shorter == SeqsUpTo(S, n - 1)
         IN  shorter \cup {Append(t, x) : t \in shorter, x \in S}

Plaintexts == SeqsUpTo(0..MaxByte, MaxLen)

\* data / length: a buffer with its length, or a null pointer
DataArgs ==
    {[null |-> FALSE, bytes |-> b, length |-> Len(b)] : b \in Plaintexts}
    \cup {[null |-> TRUE, bytes |-> <<>>, length |-> n] : n \in {0, 1}}

NullCtx == [null |-> TRUE, block_length |-> 0, key_length |-> 0,
            mac_length |-> 0, KDF_digest_length |-> 0, kdf_mdlen |-> 0,
            envelope_key_length |-> 0]

\* ies_ctx_t: the sizes of the chosen cipher and digests; KDF_digest_length
\* is the size of the KDF digest
Contexts ==
    {c \in [null : {FALSE},
            block_length : {0, 1, 2, EVP_MAX_BLOCK_LENGTH + 1},
            key_length : {1, 2},
            mac_length : {MdSize},
            KDF_digest_length : {2, 4},
            kdf_mdlen : {2, 4},
            envelope_key_length : {PointOctLen - 1, PointOctLen,
                                   PointOctLen + 1}] :
        c.kdf_mdlen = c.KDF_digest_length}

\* the contexts a cryptogram made under c is decrypted with: c, or c with
\* another KDF output length
DecryptContexts(c) ==
    {[c EXCEPT !.KDF_digest_length = n] : n \in {2, 4}}

NoArgs == [ctx_null |-> FALSE, cg_null |-> FALSE, length_null |-> FALSE,
           error_null |-> FALSE]
\* ecies_decrypt's pointer arguments: all given, or one of them NULL
DecryptArgs ==
    {NoArgs, [NoArgs EXCEPT !.ctx_null = TRUE],
     [NoArgs EXCEPT !.cg_null = TRUE], [NoArgs EXCEPT !.length_null = TRUE],
     [NoArgs EXCEPT !.error_null = TRUE]}

NoLoc == [block_length |-> 0, key_length |-> 0, mac_length |-> 0]

----------------------------------------------------------------------------
(* ecies_encrypt, lines 268-318.                                           *)

\* the test with the factor 2 left out
KdfSufficient_NoFactor(key_length, KDF_digest_length) ==
    ~(key_length > KDF_digest_length)
\* lines 287 and 531: key_length * 2 > ctx->KDF_digest_length rejects
KdfSufficient(key_length, KDF_digest_length) ==
    ~(key_length * 2 > KDF_digest_length)

\* lines 276-290: the message of the first failing check, or ""
encrypt_checks(c, d, l) ==
    IF c.null \/ d.null \/ d.length = 0
    THEN "Invalid arguments"
    ELSE IF l.block_length = 0 \/ l.block_length > EVP_MAX_BLOCK_LENGTH
    THEN "Derived block size is incorrect"
    ELSE IF ~KdfSufficient(l.key_length, c.KDF_digest_length)
    THEN "The key derivation method will not produce enough envelope key material for the chosen ciphers"
    ELSE ""

\* line 294: the body capacity, length rounded up to the block size
BodyCapacity(length, block_length) ==
    length + (IF length % block_length # 0
              THEN block_length - (length % block_length) ELSE 0)

\* a call of ecies_encrypt begins
EncCall ==
    /\ pc = "idle" /\ cg.state = "none"
    /\ \E c \in Contexts \cup {NullCtx}, d \in DataArgs :
          /\ ctx' = c
          /\ data' = d
    /\ pc' = "enc_locals" /\ op' = "encrypt"
    /\ err' = "" /\ result' = PENDING /\ did' = {} /\ fault' = "none"
    /\ UNCHANGED <<loc, cg, ek, kt, eph, macst, tampered, args, kdf>>

\* lines 270-272: the initialisers read ctx->cipher and ctx->md; through a
\* null ctx that is undefined: the process dies, or reads whatever is there
EncLocals ==
    /\ pc = "enc_locals"
    /\ \/ /\ ~ctx.null
          /\ loc' = [block_length |-> ctx.block_length,
                     key_length |-> ctx.key_length,
                     mac_length |-> ctx.mac_length]
          /\ pc' = "enc_checks" /\ result' = result
       \/ /\ ctx.null
          /\ \E b \in {0, 1} :
                loc' = [block_length |-> b, key_length |-> 1,
                        mac_length |-> 1]
          /\ pc' = "enc_checks" /\ result' = result
       \/ /\ ctx.null
          /\ loc' = loc
          /\ pc' = "done" /\ result' = CRASH
    /\ did' = did \cup {"read_ctx"}
    /\ UNCHANGED <<op, ctx, data, cg, ek, kt, eph, err, fault, macst,
                   tampered, args, kdf>>

\* lines 276-290
EncChecks ==
    /\ pc = "enc_checks"
    /\ LET m == encrypt_checks(ctx, data, loc)
       IN  IF m # ""
           THEN /\ err' = m /\ result' = NULL /\ pc' = "done"
           ELSE /\ err' = err /\ result' = result /\ pc' = "enc_alloc"
    /\ UNCHANGED <<op, ctx, data, loc, cg, ek, kt, eph, did, fault, macst,
                   tampered, args, kdf>>

\* lines 292-298
EncAlloc ==
    /\ pc = "enc_alloc"
    /\ \E f \in {"none", "cryptogram_alloc"} :
          /\ fault' = f
          /\ IF f = "cryptogram_alloc"
             THEN /\ err' = "Unable to allocate a cryptogram_t buffer to hold the encrypted result."
                  /\ result' = NULL /\ pc' = "done" /\ cg' = cg
             ELSE /\ cg' = cryptogram_alloc(ctx.envelope_key_length,
                               loc.mac_length,
                               BodyCapacity(data.length, loc.block_length))
                  /\ err' = err /\ result' = result /\ pc' = "enc_envelope"
    /\ did' = did \cup {"cryptogram_alloc"}
    /\ UNCHANGED <<op, ctx, data, loc, ek, kt, eph, macst, tampered, args,
                   kdf>>

\* lines 300-303
EncEnvelopeKey ==
    /\ pc = "enc_envelope"
    /\ \E f \in PrepareFaults \cup {"none"}, e \in 1..MaxEph :
          LET r == prepare_envelope_key(ctx, cg, e, f)
          IN  /\ fault' = f
              /\ ek' = r.ek /\ kt' = r.kt /\ eph' = r.eph
              /\ did' = did \cup r.did
              /\ IF ~r.ok
                 THEN /\ cg' = cryptogram_free(r.cg)
                      /\ err' = r.err /\ result' = NULL /\ pc' = "done"
                 ELSE /\ cg' = r.cg
                      /\ err' = err /\ result' = result /\ pc' = "enc_body"
    /\ UNCHANGED <<op, ctx, data, loc, macst, tampered, args, kdf>>

\* what the call returns once the cryptogram has been released n times: a
\* second release of the same object is undefined, the allocator may abort
AfterFree(n) == IF n > 1 THEN {NULL, CRASH} ELSE {NULL}

\* lines 305-309
EncBody ==
    /\ pc = "enc_body"
    /\ \E f \in BodyFaults \cup {"none"} :
          LET r == store_cipher_body(ctx, ek, data, cg, f)
          IN  /\ fault' = f
              /\ IF ~r.ok
                 THEN /\ cg' = cryptogram_free(r.cg)
                      /\ ek' = free(ek)
                      /\ err' = r.err /\ pc' = "done"
                      /\ result' \in AfterFree(r.cg.frees + 1)
                 ELSE /\ cg' = r.cg /\ ek' = ek
                      /\ err' = err /\ result' = result /\ pc' = "enc_mac"
    /\ did' = did \cup {"store_cipher_body"}
    /\ UNCHANGED <<op, ctx, data, loc, kt, eph, macst, tampered, args, kdf>>

\* lines 311-317
EncMac ==
    /\ pc = "enc_mac"
    /\ \E f \in {"none", "HMAC"} :
          LET r == store_mac_tag(ctx, ek, cg, f)
          IN  /\ fault' = f
              /\ IF ~r.ok
                 THEN /\ cg' = cryptogram_free(r.cg)
                      /\ ek' = free(ek)
                      /\ err' = r.err /\ result' = NULL
                 ELSE /\ cg' = r.cg /\ ek' = ek
                      /\ err' = err /\ result' = CRYPTOGRAM
    /\ pc' = "done"
    /\ did' = did \cup {"store_mac_tag"}
    /\ UNCHANGED <<op, ctx, data, loc, kt, eph, macst, tampered, args, kdf>>

----------------------------------------------------------------------------
(* ecies_decrypt, lines 520-554.                                           *)

\* a caller that goes on whatever verify_mac returned
VerifyGate_Ignore(ok) == TRUE
\* line 541: the call goes on to decrypt_body only if verify_mac returned 1
VerifyGate(ok) == ok

\* a call of ecies_decrypt begins, on the cryptogram of the last encrypt
DecCall ==
    /\ pc = "idle" /\ cg.state = "live"
    /\ \E a \in DecryptArgs :
          /\ args' = a
          /\ ctx' \in IF a.ctx_null THEN {NullCtx} ELSE DecryptContexts(ctx)
    /\ pc' = "dec_checks" /\ op' = "decrypt"
    /\ err' = "" /\ result' = PENDING /\ did' = {} /\ fault' = "none"
    /\ macst' = "none"
    /\ UNCHANGED <<data, loc, cg, ek, kt, eph, tampered, kdf>>

\* lines 525-534; SET_ERROR through a null error pointer is undefined: the
\* process dies, or the write is lost and the call returns
DecChecks ==
    /\ pc = "dec_checks"
    /\ \/ /\ args.ctx_null \/ args.cg_null \/ args.length_null
          /\ ~args.error_null
          /\ err' = "Invalid argument" /\ result' = NULL /\ pc' = "done"
       \/ /\ args.error_null
          /\ err' = err /\ result' \in {NULL, CRASH} /\ pc' = "done"
       \/ /\ args = NoArgs
          /\ ~KdfSufficient(ctx.key_length, ctx.KDF_digest_length)
          /\ err' = "The key derivation method will not produce enough envelope key material for the chosen ciphers"
          /\ result' = NULL /\ pc' = "done"
       \/ /\ args = NoArgs
          /\ KdfSufficient(ctx.key_length, ctx.KDF_digest_length)
          /\ err' = err /\ result' = result /\ pc' = "dec_envelope"
    /\ UNCHANGED <<op, ctx, data, loc, cg, ek, kt, eph, did, fault, macst,
                   tampered, args, kdf>>

\* lines 536-539
DecEnvelopeKey ==
    /\ pc = "dec_envelope"
    /\ \E f \in RestoreFaults \cup {"none"} :
          LET r == restore_envelope_key(ctx, cg, f)
          IN  /\ fault' = f
              /\ ek' = r.ek /\ kt' = r.kt /\ eph' = r.eph
              /\ did' = did \cup r.did
              /\ IF ~r.ok
                 THEN err' = r.err /\ result' = NULL /\ pc' = "done"
                 ELSE err' = err /\ result' = result /\ pc' = "dec_verify"
    /\ UNCHANGED <<op, ctx, data, loc, cg, macst, tampered, args, kdf>>

\* lines 541-544
DecVerify ==
    /\ pc = "dec_verify"
    /\ \E f \in {"none", "HMAC"} :
          LET r == verify_mac(ctx, cg, ek, f)
          IN  /\ fault' = f
              /\ macst' = IF r.ok THEN "ok" ELSE "fail"
              /\ err' = IF r.ok THEN err ELSE r.err
              /\ IF ~VerifyGate(r.ok)
                 THEN ek' = free(ek) /\ result' = NULL /\ pc' = "done"
                 ELSE ek' = ek /\ result' = result /\ pc' = "dec_body"
    /\ did' = did \cup {"verify_mac"}
    /\ UNCHANGED <<op, ctx, data, loc, cg, kt, eph, tampered, args, kdf>>

\* lines 546-553
DecBody ==
    /\ pc = "dec_body"
    /\ \E f \in DecryptFaults \cup {"none"} :
          LET r == decrypt_body(ctx, cg, ek, f)
          IN  /\ fault' = f
              /\ did' = did \cup {"decrypt_body"} \cup r.did
              /\ err' = IF r.err # "" THEN r.err ELSE err
              /\ result' = IF ~r.ok THEN NULL
                           ELSE Plain(r.output, r.length)
    /\ ek' = free(ek)
    /\ pc' = "done"
    /\ UNCHANGED <<op, ctx, data, loc, cg, kt, eph, macst, tampered, args,
                   kdf>>

----------------------------------------------------------------------------
(* Between the calls.                                                      *)

\* the byte x with bit b inverted
FlipBit(x, b) == IF (x \div (2 ^ b)) % 2 = 1 THEN x - 2 ^ b ELSE x + 2 ^ b

\* one bit of the body or of the mac field of a returned cryptogram flips
Tamper ==
    /\ pc = "idle" /\ cg.state = "live" /\ tampered = "no"
    /\ \E b \in 0..MaxBit :
          \/ /\ \E j \in 1..cg.body_length :
                   cg' = [cg EXCEPT !.body[j] = FlipBit(@, b)]
             /\ tampered' = "body"
          \/ /\ \E j \in 1..cg.mac_length :
                   cg' = [cg EXCEPT !.mac[j] = FlipBit(@, b)]
             /\ tampered' = "mac"
    /\ UNCHANGED <<pc, op, ctx, data, loc, ek, kt, eph, err, result, did,
                   fault, macst, args, kdf>>

NoData == [null |-> TRUE, bytes |-> <<>>, length |-> 0]

\* the call has returned: the caller keeps a returned cryptogram for a
\* later ecies_decrypt, and everything else starts afresh
Return ==
    /\ pc = "done"
    /\ pc' = "idle" /\ op' = "none"
    /\ IF op = "encrypt" /\ result = CRYPTOGRAM
       THEN UNCHANGED <<ctx, data, cg>>
       ELSE ctx' = NullCtx /\ data' = NoData /\ cg' = NoCg
    /\ loc' = NoLoc /\ ek' = NoBuf /\ kt' = NoBuf /\ eph' = "none"
    /\ err' = "" /\ result' = NONE /\ did' = {} /\ fault' = "none"
    /\ macst' = "none" /\ tampered' = "no" /\ args' = NoArgs
    /\ UNCHANGED kdf

Init ==
    /\ pc = "idle" /\ op = "none" /\ ctx = NullCtx /\ data = NoData
    /\ loc = NoLoc /\ cg = NoCg /\ ek = NoBuf /\ kt = NoBuf /\ eph = "none"
    /\ err = "" /\ result = NONE /\ did = {} /\ fault = "none"
    /\ macst = "none" /\ tampered = "no" /\ args = NoArgs
    /\ kdf = NoKdf

Next ==
    \/ EncCall \/ EncLocals \/ EncChecks \/ EncAlloc \/ EncEnvelopeKey
    \/ EncBody \/ EncMac
    \/ DecCall \/ DecChecks \/ DecEnvelopeKey \/ DecVerify \/ DecBody
    \/ Tamper \/ Return

Spec == Init /\ [][Next]_vars

----------------------------------------------------------------------------
(* ECDH_KDF_X9_62 on its own, one loop iteration per step.                 *)

KdfSecrets == {<<>>, <<4>>, <<4, 9>>}
KdfInfos == {<<>>, <<5>>}

InitKDF ==
    /\ pc = "idle" /\ op = "none" /\ ctx = NullCtx /\ data = NoData
    /\ loc = NoLoc /\ cg = NoCg /\ ek = NoBuf /\ kt = NoBuf /\ eph = "none"
    /\ err = "" /\ result = NONE /\ did = {} /\ fault = "none"
    /\ macst = "none" /\ tampered = "no" /\ args = NoArgs
    /\ \E outlen \in (0..MaxOut) \cup {ECDH_KDF_MAX + 1},
          Z \in KdfSecrets, sinfo \in KdfInfos, mdlen \in 1..MaxMd,
          bigZ \in BOOLEAN, bigInfo \in BOOLEAN, digestOk \in BOOLEAN :
          kdf = KdfEnter(outlen,
                         Z, IF bigZ THEN ECDH_KDF_MAX + 1 ELSE Len(Z),
                         sinfo, IF bigInfo THEN ECDH_KDF_MAX + 1
                                ELSE Len(sinfo),
                         mdlen, digestOk)

\* lines 36-39
KdfEntry ==
    /\ kdf.pc = "entry"
    /\ kdf' = KdfCheck(kdf)
    /\ UNCHANGED <<pc, op, ctx, data, loc, cg, ek, kt, eph, err, result,
                   did, fault, macst, tampered, args>>

\* lines 40-71
KdfLoop ==
    /\ kdf.pc = "loop"
    /\ kdf' = KdfIter(kdf)
    /\ UNCHANGED <<pc, op, ctx, data, loc, cg, ek, kt, eph, err, result,
                   did, fault, macst, tampered, args>>

NextKDF == KdfEntry \/ KdfLoop

SpecKDF == InitKDF /\ [][NextKDF]_vars

----------------------------------------------------------------------------
(* Properties.                                                             *)

\* the steps of decrypt_body
BodySteps == {"decrypt_body", "malloc_output", "EVP_DecryptInit_ex",
              "EVP_DecryptUpdate", "EVP_DecryptFinal_ex"}

\* every pointer argument was given and no primitive reported failure
CleanCall == args = NoArgs /\ fault = "none"

\* the context is one a constructor builds: KDF_digest_length is the size
\* of the KDF digest
WellFormed(c) == ~c.null /\ c.KDF_digest_length = c.kdf_mdlen

Insufficient(c) == ~c.null /\ c.key_length * 2 > c.KDF_digest_length

\* C1: in ecies_decrypt, decrypt_body and each of its cipher steps run only
\* after verify_mac returned success in the same call; a call in which
\* verify_mac failed returns NULL, has run no step of decrypt_body and
\* returns no plaintext.
C1_VerifyBeforeDecrypt ==
    /\ pc = "dec_body" => macst = "ok"
    /\ did \cap BodySteps # {} => macst = "ok"
    /\ (op = "decrypt" /\ pc = "done" /\ macst = "fail")
          => (result = NULL /\ did \cap BodySteps = {})

\* a call of ecies_decrypt has returned NULL because verify_mac failed
C1_Witness ==
    /\ op = "decrypt" /\ pc = "done" /\ macst = "fail"
    /\ "verify_mac" \in did /\ result = NULL

\* C2: decrypting, under the same well-formed context, the untouched
\* cryptogram that ecies_encrypt returned yields the original bytes and
\* the original length.
C2_RoundTrip ==
    (op = "decrypt" /\ pc = "done" /\ tampered = "no" /\ CleanCall
        /\ WellFormed(ctx))
        => result = Plain(data.bytes, data.length)

\* C3: once a bit of the body or of the mac field has been flipped,
\* ecies_decrypt returns no plaintext, and it returns NULL with the MAC
\* verification error whenever its arguments are given, the context has
\* enough key material and no primitive fails; a returned plaintext always
\* comes from a cryptogram whose stored tag is the HMAC of its stored body.
C3_TamperDetected ==
    (op = "decrypt" /\ pc = "done") =>
        /\ tampered # "no" => result.kind # "plaintext"
        /\ (tampered # "no" /\ CleanCall /\ ~Insufficient(ctx))
              => (result = NULL /\ err = "MAC tag verification failed")
        /\ result.kind = "plaintext"
              => cg.mac = HMAC(MacKey(ctx, ek), cg.body, ctx.mac_length)

\* a cryptogram with a flipped body bit was rejected by verify_mac
C3_Witness ==
    /\ op = "decrypt" /\ pc = "done" /\ tampered = "body"
    /\ result = NULL /\ err = "MAC tag verification failed"

\* C4: no byte of the cipher output is ever written past the capacity of
\* the cryptogram's body field.
C4_CapacityEnforced == Len(cg.past) = 0

\* a secret buffer is gone, and if key material was stored in it, it was
\* zeroized before it was released
Wiped(b) ==
    /\ b.state \in {"none", "freed"}
    /\ (b.state = "freed" /\ b.secret) => b.cleansed

\* C5: when ecies_encrypt or ecies_decrypt returns, the envelope key and
\* the ECDH shared secret it allocated have been zeroized and released.
C5_SecretsWiped == pc = "done" => (Wiped(ek) /\ Wiped(kt))

\* the steps that allocate, make or rebuild a key, or agree on a secret
KeySteps == {"cryptogram_alloc", "malloc_envelope_key", "ecies_key_create",
             "ecies_key_create_public_octets", "malloc_ktmp",
             "ECDH_compute_key", "ECDH_KDF_X9_62"}

\* C6: a call of ecies_encrypt or ecies_decrypt with a context whose cipher
\* key length times two exceeds KDF_digest_length never allocates a
\* cryptogram or an envelope key, never makes or rebuilds an ephemeral key
\* and never runs the key agreement, and it returns NULL (given an error
\* buffer to report into).
C6_MinKdfMaterial ==
    (op # "none" /\ Insufficient(ctx)) =>
        /\ did \cap KeySteps = {}
        /\ pc \in {"enc_locals", "enc_checks", "dec_checks", "done"}
        /\ (pc = "done" /\ ~args.error_null) => result = NULL

\* ecies_decrypt rejected a context with too little KDF output
C6_Witness ==
    /\ op = "decrypt" /\ pc = "done" /\ Insufficient(ctx) /\ args = NoArgs
    /\ result = NULL
    /\ err = "The key derivation method will not produce enough envelope key material for the chosen ciphers"

\* C7: a call that returns NULL has written a message into the caller's
\* error buffer during the call.
C7_ErrorReported ==
    (pc = "done" /\ result = NULL /\ ~args.error_null) => err # ""

\* C8: ecies_encrypt with a null context, a null plaintext or a zero
\* length returns NULL with "Invalid arguments", having read no field of
\* the context and allocated nothing.
C8_InvalidArgsFirst ==
    (op = "encrypt" /\ pc = "done"
        /\ (ctx.null \/ data.null \/ data.length = 0))
        => (result = NULL /\ err = "Invalid arguments" /\ did = {})

\* the 4-byte big-endian encoding of n
BigEndian4(n) == [j \in 1..4 |-> (n \div (256 ^ (4 - j))) % 256]

\* the byte at 0-based offset o of H(Z || ctr(1) || sinfo) || H(Z || ctr(2)
\* || sinfo) || ...
KdfStreamByte(k, o) ==
    Digest(k.Z \o BigEndian4((o \div k.mdlen) + 1) \o k.sinfo,
           k.mdlen)[(o % k.mdlen) + 1]

\* C9: ECDH_KDF_X9_62 rejects a length above ECDH_KDF_MAX writing nothing;
\* otherwise its loop runs at most outlen / mdlen + 1 times with the
\* counter starting at 1 and going up by one per block, never writes at or
\* past out + outlen, and, the digest calls succeeding, returns 1 with
\* exactly the first outlen bytes of the KDF2 stream in out.
C9_KdfCorrect ==
    kdf.pc # "off" =>
        /\ \A j \in (kdf.outlen0 + 1)..Len(kdf.out) : kdf.out[j] = -1
        /\ kdf.pc = "loop" =>
              /\ kdf.i >= 1 /\ kdf.i <= (kdf.outlen0 \div kdf.mdlen) + 1
              /\ kdf.pos = (kdf.i - 1) * kdf.mdlen
              /\ kdf.outlen = kdf.outlen0 - kdf.pos
        /\ kdf.pc = "done" =>
              IF KdfTooLong(kdf.sinfolen, kdf.outlen0, kdf.Zlen)
              THEN kdf.rv = 0 /\ \A j \in 1..Len(kdf.out) : kdf.out[j] = -1
              ELSE IF kdf.digestOk
              THEN /\ kdf.rv = 1
                   /\ \A j \in 1..kdf.outlen0 :
                         kdf.out[j] = KdfStreamByte(kdf, j - 1)
              ELSE kdf.rv = 0

\* a call returned 1 after several blocks, the last one truncated
C9_Witness ==
    /\ kdf.pc = "done" /\ kdf.rv = 1 /\ kdf.i >= 2
    /\ kdf.outlen0 % kdf.mdlen # 0

\* C10: the cryptogram ecies_encrypt allocated is released exactly once
\* when the call fails, never when it succeeds, and never twice.
C10_CryptogramOwnership ==
    /\ cg.frees <= 1
    /\ (op = "encrypt" /\ pc = "done" /\ cg.state # "none")
          => IF result = CRYPTOGRAM
             THEN cg.frees = 0 /\ cg.state = "live"
             ELSE cg.frees = 1 /\ cg.state = "freed"

====
